---------------------------- MODULE Spec2Model ----------------------------
(***************************************************************************)
(* Verification model of the coin counter (ContadorMoedas): the colour-    *)
(* aware pipeline detectarEContarMoedas -> processarMoedas ->              *)
(* calcularReferenciasPorCor / classificarMoedaPorCorETamanho ->           *)
(* calcularValorTotal, and detectarSobreposicoes.                          *)
(*                                                                         *)
(* Numbers keep the width the C++ code gives them:                         *)
(*   - `float` values (radii, mm-per-pixel factors, thresholds) are IEEE   *)
(*     binary32 values [inf, m, e] standing for m * 2^e with a 24-bit      *)
(*     significand, every operation rounded to nearest, ties to even;      *)
(*   - `double` money values are IEEE binary64 values kept as the integer  *)
(*     X = value * 2^57 in two 30-bit limbs [hi, lo], every addition       *)
(*     rounded to 53 significant bits, ties to even.  The grid 2^-57 is    *)
(*     the unit in the last place of 0.05, the smallest coin value, and    *)
(*     holds every total below 8.0 exactly as the hardware holds it.       *)
(***************************************************************************)
EXTENDS Integers, Naturals, Sequences, FiniteSets, TLC

(***************************************************************************)
(* Bounds of the model.                                                    *)
(***************************************************************************)
MaxCirculos == 3

(***************************************************************************)
(* State.                                                                  *)
(***************************************************************************)
VARIABLES
    pc,             \* position in main / detectarEContarMoedas
    rodada,         \* 1 on the first run over an image, 2 on the repetition
    circulos,       \* vector<Vec3f> circulos
    it,             \* position of the loop in progress (1-based)
    ref,            \* ReferenciaPorCor ref of processarMoedas
    moedas,         \* vector<Moeda> moedas of processarMoedas
    detalhes,       \* per coin: colour and locals of the classifier call
    resultado,      \* ResultadoDeteccao resultado
    sobreposicoes,  \* result of detectarSobreposicoes in main
    anterior,       \* resultado of the previous run over the same image
    contagem,       \* map<string, int> contagem of exibirResumo
    modeloCarregado,\* ClassificadorMoedas::modeloCarregado (ML program)
    imagem          \* Mat imagem of main: what imread left in it

vars == <<pc, rodada, circulos, it, ref, moedas, detalhes, resultado,
          sobreposicoes, anterior, contagem, modeloCarregado, imagem>>

(***************************************************************************)
(* IEEE binary32 (`float`).                                                *)
(***************************************************************************)
P23 == 2^23
P24 == 2^24
P12 == 2^12

F32Zero == [inf |-> FALSE, m |-> 0, e |-> 0]
F32Inf  == [inf |-> TRUE,  m |-> 0, e |-> 0]

RECURSIVE F32NormUp(_, _)
\* m * 2^e with 0 < m < 2^24, brought to a 24-bit significand (exact).
F32NormUp(m, e) ==
    IF m >= P23 THEN [inf |-> FALSE, m |-> m, e |-> e]
    ELSE F32NormUp(2 * m, e - 1)

\* An integer 0 <= n < 2^24 as a float (exact conversion).
F32FromNat(n) == IF n = 0 THEN F32Zero ELSE F32NormUp(n, 0)

\* Round q (24 bits, or 2^24 after a carry) given the discarded part:
\* cmp is -1, 0 or 1 as the discarded part is below, at or above one half.
F32Round(q, e, cmp) ==
    LET up == (cmp > 0) \/ (cmp = 0 /\ q % 2 = 1)
        q1 == IF up THEN q + 1 ELSE q
    IN  IF q1 = P24 THEN [inf |-> FALSE, m |-> P23, e |-> e + 1]
        ELSE [inf |-> FALSE, m |-> q1, e |-> e]

Sgn(x) == IF x > 0 THEN 1 ELSE IF x < 0 THEN -1 ELSE 0

RECURSIVE F32LongDiv(_, _, _, _)
\* k more quotient bits of r / b on top of q: <<quotient, remainder>>.
F32LongDiv(q, r, b, k) ==
    IF k = 0 THEN <<q, r>>
    ELSE IF 2 * r >= b THEN F32LongDiv(2 * q + 1, 2 * r - b, b, k - 1)
         ELSE F32LongDiv(2 * q, 2 * r, b, k - 1)

\* a / b in binary32: x / 0 = +inf for x > 0 (IEEE 754), correctly rounded
\* quotient otherwise.
F32Div(a, b) ==
    IF a.inf THEN F32Inf
    ELSE IF b.inf THEN F32Zero
    ELSE IF b.m = 0 THEN F32Inf
    ELSE IF a.m = 0 THEN F32Zero
    ELSE LET k  == IF a.m >= b.m THEN 23 ELSE 24
             qr == F32LongDiv(a.m \div b.m, a.m % b.m, b.m, k)
         IN  F32Round(qr[1], a.e - b.e - k, Sgn(2 * qr[2] - b.m))

\* a * b in binary32: the 48-bit product is formed from 12-bit halves and
\* rounded to 24 bits.
F32Mul(a, b) ==
    IF a.inf \/ b.inf THEN F32Inf
    ELSE IF a.m = 0 \/ b.m = 0 THEN F32Zero
    ELSE LET ah  == a.m \div P12
             al  == a.m % P12
             bh  == b.m \div P12
             bl  == b.m % P12
             mid == ah * bl + al * bh
             t   == al * bl + (mid % P12) * P12
             L   == t % P24
             H   == ah * bh + (mid \div P12) + (t \div P24)
         IN  IF H >= P23
             THEN F32Round(H, a.e + b.e + 24, Sgn(L - P23))
             ELSE F32Round(2 * H + (L \div P23), a.e + b.e + 23,
                           Sgn(2 * (L % P23) - P23))

\* a < b for non-negative floats.
F32Less(a, b) ==
    IF a.inf THEN FALSE
    ELSE IF b.inf THEN TRUE
    ELSE IF b.m = 0 THEN FALSE
    ELSE IF a.m = 0 THEN TRUE
    ELSE IF a.e # b.e THEN a.e < b.e
    ELSE a.m < b.m

RECURSIVE F32SqrtInt(_, _, _, _)
\* Digit-by-digit square root of n * 4^w: p is the root so far, r the
\* remainder, w the number of bit pairs of n still to bring down.
F32SqrtInt(p, r, n, w) ==
    IF w = 0 THEN <<p, r>>
    ELSE LET r1 == 4 * r + ((n \div (4^(w - 1))) % 4)
             t  == 4 * p + 1
         IN  IF r1 >= t THEN F32SqrtInt(2 * p + 1, r1 - t, n, w - 1)
             ELSE F32SqrtInt(2 * p, r1, n, w - 1)

RECURSIVE F32SqrtFrac(_, _, _)
\* Further binary digits of the root until it has 24 bits; k counts them.
F32SqrtFrac(p, r, k) ==
    IF p >= P23 THEN <<p, r, k>>
    ELSE LET r1 == 4 * r
             t  == 4 * p + 1
         IN  IF r1 >= t THEN F32SqrtFrac(2 * p + 1, r1 - t, k + 1)
             ELSE F32SqrtFrac(2 * p, r1, k + 1)

\* (float) sqrt((double) n) for an integer 0 <= n < 2^24: the square root
\* rounded to 24 bits (rounding to 53 bits first cannot change the result:
\* the root of an integer below 2^24 is never within 2^-51 of a 25-bit
\* midpoint unless it equals a 12-bit integer).
F32Sqrt(n) ==
    IF n = 0 THEN F32Zero
    ELSE LET a == F32SqrtInt(0, 0, n, 12)
             b == F32SqrtFrac(a[1], a[2], 0)
         IN  F32Round(b[1], 0 - b[3], IF b[2] > b[1] THEN 1 ELSE -1)

RECURSIVE CmpShift(_, _, _)
\* sign of x - y * 2^k for 0 <= x < 2^28, y >= 0, k >= 0.
CmpShift(x, y, k) ==
    IF k = 0 THEN Sgn(x - y)
    ELSE IF y > x THEN -1
    ELSE CmpShift(x, 2 * y, k - 1)

\* d < s * 0.9 as the code evaluates it: d is a float, s an integer-valued
\* float, the product is taken in double with the double constant 0.9.
\* For such operands the comparison with the rounded double product agrees
\* with the comparison of d with the exact 9 * s / 10.
F32LessNineTenths(d, s) ==
    IF d.m = 0 THEN s > 0
    ELSE IF d.e > 0 THEN CmpShift(9 * s, 10 * d.m, d.e) > 0
    ELSE CmpShift(10 * d.m, 9 * s, 0 - d.e) < 0

(***************************************************************************)
(* IEEE binary64 (`double`) for money: X = value * 2^57 = hi * 2^30 + lo.  *)
(***************************************************************************)
P30 == 2^30
P22 == 2^22

DZero == [hi |-> 0, lo |-> 0]

RECURSIVE BitLen(_)
\* Number of bits of n >= 0.
BitLen(n) == IF n = 0 THEN 0 ELSE 1 + BitLen(n \div 2)

\* Round the exact value (hi, lo, g, sticky) to 53 significant bits, ties
\* to even: g is the first bit below the 2^-57 grid, sticky says whether
\* anything non-zero lies below g.  Values are 0 or in [2^-5, 8).
DRound(hi, lo, g, sticky) ==
    IF hi < P22 THEN [hi |-> hi, lo |-> lo]
    ELSE LET t    == BitLen(hi) - 23
             q    == lo \div (2^t)
             rem  == (lo % (2^t)) * 2 + g
             half == 2^t
             up   == (rem > half) \/ (rem = half /\ (sticky \/ q % 2 = 1))
             lo1  == (IF up THEN q + 1 ELSE q) * (2^t)
         IN  IF lo1 >= P30 THEN [hi |-> hi + 1, lo |-> lo1 - P30]
             ELSE [hi |-> hi, lo |-> lo1]

\* a + b in binary64 (`total += moeda.valor`).
DAdd(a, b) ==
    LET s == a.lo + b.lo
    IN  DRound(a.hi + b.hi + (s \div P30), s % P30, 0, FALSE)

RECURSIVE DFracBits(_, _, _)
\* k binary digits of r / 100 appended to q: <<digits, remainder>>.
DFracBits(q, r, k) ==
    IF k = 0 THEN <<q, r>>
    ELSE IF 2 * r >= 100 THEN DFracBits(2 * q + 1, 2 * r - 100, k - 1)
         ELSE DFracBits(2 * q, 2 * r, k - 1)

\* The double nearest to c / 100: what the compiler makes of a decimal
\* literal such as 0.05, and the correctly rounded value of a decimal
\* amount of c centavos (c = 0 or 5 <= c < 800).
DoubleOfCents(c) ==
    LET h == DFracBits(c \div 100, c % 100, 27)
        l == DFracBits(0, h[2], 30)
        g == DFracBits(0, l[2], 1)
    IN  DRound(h[1], l[1], g[1], g[2] # 0)

(***************************************************************************)
(* Program constants and enumerations.                                     *)
(***************************************************************************)
TipoMoeda == {"CINCO_CENTAVOS", "DEZ_CENTAVOS", "VINTE_CINCO_CENTAVOS",
              "CINQUENTA_CENTAVOS", "UM_REAL", "DESCONHECIDA"}

CorMoeda == {"DOURADA", "PRATEADA", "BIMETALICA"}

RAIO_1_REAL_MM      == F32Div(F32FromNat(135), F32FromNat(10))
RAIO_25_CENTAVOS_MM == F32Div(F32FromNat(125), F32FromNat(10))
RAIO_50_CENTAVOS_MM == F32Div(F32FromNat(115), F32FromNat(10))
RAIO_5_CENTAVOS_MM  == F32FromNat(11)
RAIO_10_CENTAVOS_MM == F32FromNat(10)

\* Mutant: the golden threshold at the midpoint 10.5 of the known radii.
LimiarDouradaMeio == F32Div(F32FromNat(105), F32FromNat(10))

\* Mutant: the silver threshold at the known radius 12.5 of 25 centavos.
LimiarPrateadaMaior == F32Div(F32FromNat(125), F32FromNat(10))

\* Mutant: the silver threshold above the known radius of 25 centavos.
LimiarPrateadaAcima == F32FromNat(13)

\* The float literals the classifier compares against.
LimiarDouradaUnica == F32Div(F32FromNat(105), F32FromNat(10))
LimiarDourada      == F32Div(F32FromNat(103), F32FromNat(10))
LimiarPrateada     == F32FromNat(12)

(***************************************************************************)
(* analisarCorMoeda: the decision on the mean hue/saturation of the centre *)
(* disk and of the rim annulus of a circle.                                *)
(***************************************************************************)
\* Mutant: the golden test made before the bimetallic test.
analisarCorMoedaDouradaPrimeiro(a) ==
    LET bordaDourada    == a.hBorda >= 10 /\ a.hBorda <= 40 /\ a.sBorda > 100
        centroDiferente == (a.sCentro < a.sBorda - 50) \/ (a.hCentro > 35)
    IN  IF a.hCentro >= 8 /\ a.hCentro <= 45 /\ a.sCentro > 100
        THEN "DOURADA"
        ELSE IF bordaDourada /\ centroDiferente THEN "BIMETALICA"
        ELSE IF a.sCentro < 80 THEN "PRATEADA"
        ELSE IF a.hCentro > 45 \/ a.hCentro < 8 THEN "PRATEADA"
        ELSE "DOURADA"

analisarCorMoeda(a) ==
    LET bordaDourada    == a.hBorda >= 10 /\ a.hBorda <= 40 /\ a.sBorda > 100
        centroDiferente == (a.sCentro < a.sBorda - 50) \/ (a.hCentro > 35)
    IN  IF bordaDourada /\ centroDiferente THEN "BIMETALICA"
        ELSE IF a.hCentro >= 8 /\ a.hCentro <= 45 /\ a.sCentro > 100
             THEN "DOURADA"
        ELSE IF a.sCentro < 80 THEN "PRATEADA"
        ELSE IF a.hCentro > 45 \/ a.hCentro < 8 THEN "PRATEADA"
        ELSE "DOURADA"

(***************************************************************************)
(* calcularReferenciasPorCor.                                              *)
(***************************************************************************)
\* Mutant: the reference kept from the previous run (a static object).
RefHerdada == ref

\* `ReferenciaPorCor ref;` with its default member initialisers.
RefInicial ==
    [maiorRaioDourada |-> 0, maiorRaioPrateada |-> 0,
     maiorRaioBimetalica |-> 0,
     countDourada |-> 0, countPrateada |-> 0, countBimetalica |-> 0]

\* Mutant: the radius stored without the comparison with the largest so far.
RefPassoUltimo(r, c) ==
    LET cor == analisarCorMoeda(c.hsv)
    IN  CASE cor = "DOURADA" ->
               [r EXCEPT !.maiorRaioDourada = c.raio, !.countDourada = @ + 1]
          [] cor = "PRATEADA" ->
               [r EXCEPT !.maiorRaioPrateada = c.raio, !.countPrateada = @ + 1]
          [] cor = "BIMETALICA" ->
               [r EXCEPT !.maiorRaioBimetalica = c.raio,
                         !.countBimetalica = @ + 1]

\* Mutant: the calibration pass takes every circle for a golden coin.
RefPassoTudoDourado(r, c) ==
    [r EXCEPT !.maiorRaioDourada = IF c.raio > @ THEN c.raio ELSE @,
              !.countDourada = @ + 1]

\* One iteration of the loop over the circles.
RefPasso(r, c) ==
    LET cor == analisarCorMoeda(c.hsv)
    IN  CASE cor = "DOURADA" ->
               [r EXCEPT !.maiorRaioDourada =
                            IF c.raio > @ THEN c.raio ELSE @,
                         !.countDourada = @ + 1]
          [] cor = "PRATEADA" ->
               [r EXCEPT !.maiorRaioPrateada =
                            IF c.raio > @ THEN c.raio ELSE @,
                         !.countPrateada = @ + 1]
          [] cor = "BIMETALICA" ->
               [r EXCEPT !.maiorRaioBimetalica =
                            IF c.raio > @ THEN c.raio ELSE @,
                         !.countBimetalica = @ + 1]

(***************************************************************************)
(* classificarMoedaPorCorETamanho.  Besides the denomination the model     *)
(* keeps the locals of the branch taken: the anchor (known radius in mm    *)
(* and pixel radius it is assigned to), mmPorPixel and raioMM.             *)
(***************************************************************************)
SemConversao(tipo, ramo) ==
    [tipo |-> tipo, ramo |-> ramo, converteu |-> FALSE,
     ancoraMM |-> F32Zero, ancoraPx |-> 0,
     mmPorPixel |-> F32Zero, raioMM |-> F32Zero, divZero |-> FALSE]

\* Mutant: the coin's own radius taken as the anchor radius.
ConversaoPropria(raioPixels, ancoraMM, ancoraPx, limiar, menor, maior, ramo) ==
    LET mmPorPixel == F32Div(ancoraMM, F32FromNat(raioPixels))
        raioMM     == F32Mul(F32FromNat(raioPixels), mmPorPixel)
    IN  [tipo |-> IF F32Less(raioMM, limiar) THEN menor ELSE maior,
         ramo |-> ramo, converteu |-> TRUE,
         ancoraMM |-> ancoraMM, ancoraPx |-> ancoraPx,
         mmPorPixel |-> mmPorPixel, raioMM |-> raioMM,
         divZero |-> (ancoraPx = 0)]

\* mmPorPixel = ancoraMM / ancoraPx; raioMM = raioPixels * mmPorPixel;
\* return (raioMM < limiar) ? menor : maior.
Conversao(raioPixels, ancoraMM, ancoraPx, limiar, menor, maior, ramo) ==
    LET mmPorPixel == F32Div(ancoraMM, F32FromNat(ancoraPx))
        raioMM     == F32Mul(F32FromNat(raioPixels), mmPorPixel)
    IN  [tipo |-> IF F32Less(raioMM, limiar) THEN menor ELSE maior,
         ramo |-> ramo, converteu |-> TRUE,
         ancoraMM |-> ancoraMM, ancoraPx |-> ancoraPx,
         mmPorPixel |-> mmPorPixel, raioMM |-> raioMM,
         divZero |-> (ancoraPx = 0)]

\* Mutant: the other golden denomination as the default.
PadraoDouradaDez == "DEZ_CENTAVOS"

\* What a coin alone in its family is taken for when the other family gives
\* no reference.
PadraoDourada  == "CINCO_CENTAVOS"

\* Mutant: no denomination for a silver coin without reference.
PadraoPrateadaDesconhecida == "DESCONHECIDA"

PadraoPrateada == "VINTE_CINCO_CENTAVOS"

\* Mutant: the largest silver radius taken as 25 centavos (12.5 mm).
AncoraDouradaUnicaMaior(r) == [mm |-> RAIO_25_CENTAVOS_MM, px |-> r.maiorRaioPrateada]

\* Mutant: the largest bimetallic radius taken as the anchor (13.5 mm).
AncoraDouradaUnicaBimetalica(r) == [mm |-> RAIO_1_REAL_MM, px |-> r.maiorRaioBimetalica]

\* The anchor of the single golden coin: known radius and pixel radius.
AncoraDouradaUnica(r) ==
    [mm |-> RAIO_50_CENTAVOS_MM, px |-> r.maiorRaioPrateada]

ClassificarDetalhe(raioPixels, cor, r) ==
    IF cor = "BIMETALICA" THEN SemConversao("UM_REAL", "bimetalica")
    ELSE IF cor = "DOURADA" THEN
        IF r.countDourada = 1 THEN
            IF r.maiorRaioPrateada > 0
            THEN Conversao(raioPixels, AncoraDouradaUnica(r).mm,
                           AncoraDouradaUnica(r).px, LimiarDouradaUnica,
                           "DEZ_CENTAVOS", "CINCO_CENTAVOS", "dourada_unica")
            ELSE SemConversao(PadraoDourada, "dourada_padrao")
        ELSE Conversao(raioPixels, RAIO_5_CENTAVOS_MM, r.maiorRaioDourada,
                       LimiarDourada,
                       "DEZ_CENTAVOS", "CINCO_CENTAVOS", "douradas")
    ELSE IF cor = "PRATEADA" THEN
        IF r.countPrateada = 1 THEN
            IF r.maiorRaioDourada > 0
            THEN Conversao(raioPixels, RAIO_5_CENTAVOS_MM,
                           r.maiorRaioDourada, LimiarPrateada,
                           "CINQUENTA_CENTAVOS", "VINTE_CINCO_CENTAVOS",
                           "prateada_unica")
            ELSE SemConversao(PadraoPrateada, "prateada_padrao")
        ELSE Conversao(raioPixels, RAIO_25_CENTAVOS_MM, r.maiorRaioPrateada,
                       LimiarPrateada,
                       "CINQUENTA_CENTAVOS", "VINTE_CINCO_CENTAVOS",
                       "prateadas")
    ELSE SemConversao("UM_REAL", "fallback")

classificarMoedaPorCorETamanho(raioPixels, cor, r) ==
    ClassificarDetalhe(raioPixels, cor, r).tipo

(***************************************************************************)
(* obterValorMoeda, obterNomeDenominacao.                                  *)
(***************************************************************************)
\* Mutant: the case UM_REAL missing from the switch.
obterValorMoedaSemReal(tipo) ==
    CASE tipo = "CINCO_CENTAVOS"       -> DoubleOfCents(5)
      [] tipo = "DEZ_CENTAVOS"         -> DoubleOfCents(10)
      [] tipo = "VINTE_CINCO_CENTAVOS" -> DoubleOfCents(25)
      [] tipo = "CINQUENTA_CENTAVOS"   -> DoubleOfCents(50)
      [] OTHER                         -> DZero

obterValorMoeda(tipo) ==
    CASE tipo = "CINCO_CENTAVOS"       -> DoubleOfCents(5)
      [] tipo = "DEZ_CENTAVOS"         -> DoubleOfCents(10)
      [] tipo = "VINTE_CINCO_CENTAVOS" -> DoubleOfCents(25)
      [] tipo = "CINQUENTA_CENTAVOS"   -> DoubleOfCents(50)
      [] tipo = "UM_REAL"              -> DoubleOfCents(100)
      [] OTHER                         -> DZero

obterNomeDenominacao(tipo) ==
    CASE tipo = "CINCO_CENTAVOS"       -> "5 centavos"
      [] tipo = "DEZ_CENTAVOS"         -> "10 centavos"
      [] tipo = "VINTE_CINCO_CENTAVOS" -> "25 centavos"
      [] tipo = "CINQUENTA_CENTAVOS"   -> "50 centavos"
      [] tipo = "UM_REAL"              -> "1 real"
      [] OTHER                         -> "Desconhecida"

(***************************************************************************)
(* processarMoedas: the body of the classification loop.                   *)
(***************************************************************************)
MoedaDe(c, r) ==
    LET cor  == analisarCorMoeda(c.hsv)
        tipo == classificarMoedaPorCorETamanho(c.raio, cor, r)
    IN  [centro |-> <<c.x, c.y>>, raio |-> c.raio,
         valor |-> obterValorMoeda(tipo),
         denominacao |-> obterNomeDenominacao(tipo)]

(***************************************************************************)
(* calcularValorTotal: total = 0.0; total += moeda.valor, first to last.   *)
(***************************************************************************)
RECURSIVE SomaAte(_, _)
SomaAte(ms, n) ==
    IF n = 0 THEN DZero ELSE DAdd(SomaAte(ms, n - 1), ms[n].valor)

calcularValorTotal(ms) == SomaAte(ms, Len(ms))

(***************************************************************************)
(* contarPorDenominacao: a std::map from label to count, as a function on  *)
(* the set of its keys.                                                    *)
(***************************************************************************)
\* `map<string, int> contagem;`
SemContagem == [d \in {} |-> 0]

\* Mutant: a label entered in the map without being counted.
ContarSemPrimeiro(c, d) ==
    [k \in DOMAIN c \cup {d} |->
        IF k # d THEN c[k] ELSE IF d \in DOMAIN c THEN c[d] + 1 ELSE 0]

\* contagem[d]++ : operator[] enters an absent key with the value 0, then
\* the value is incremented.
Contar(c, d) ==
    [k \in DOMAIN c \cup {d} |->
        IF k # d THEN c[k] ELSE (IF d \in DOMAIN c THEN c[d] ELSE 0) + 1]

RECURSIVE ContarAte(_, _)
ContarAte(ms, n) ==
    IF n = 0 THEN SemContagem
    ELSE Contar(ContarAte(ms, n - 1), ms[n].denominacao)

contarPorDenominacao(ms) == ContarAte(ms, Len(ms))

(***************************************************************************)
(* detectarSobreposicoes.  Indices are those of the C++ vector (0-based).  *)
(***************************************************************************)
\* float distancia = norm(centro_i - centro_j);
distancia(a, b) ==
    LET dx == a.centro[1] - b.centro[1]
        dy == a.centro[2] - b.centro[2]
    IN  F32Sqrt(dx * dx + dy * dy)

\* Mutant: the tolerance factor 0.9 forgotten.
SobrepoeSemTolerancia(a, b) ==
    F32Less(distancia(a, b), F32FromNat(a.raio + b.raio))

\* Mutant: the radius of the first coin taken twice.
SobrepoePrimeiroRaio(a, b) ==
    F32LessNineTenths(distancia(a, b), a.raio + a.raio)

\* distancia < somaRaios * 0.9
Sobrepoe(a, b) == F32LessNineTenths(distancia(a, b), a.raio + b.raio)

RECURSIVE LacoJ(_, _, _)
LacoJ(ms, i, j) ==
    IF j >= Len(ms) THEN << >>
    ELSE (IF Sobrepoe(ms[i + 1], ms[j + 1]) THEN << <<i, j>> >> ELSE << >>)
         \o LacoJ(ms, i, j + 1)

\* for (j = i + 1; ...)
PrimeiroJ(i) == i + 1

RECURSIVE LacoI(_, _)
LacoI(ms, i) ==
    IF i >= Len(ms) THEN << >>
    ELSE LacoJ(ms, i, PrimeiroJ(i)) \o LacoI(ms, i + 1)

detectarSobreposicoes(ms) == LacoI(ms, 0)

(***************************************************************************)
(* Inputs.  A circle is what HoughCircles returns (centre and radius, in   *)
(* pixels) together with the colour statistics the image has under it.     *)
(***************************************************************************)
\* Mean HSV of a golden, a silver and a bimetallic coin.
AmostraDourada ==
    [hCentro |-> 20,  sCentro |-> 150, hBorda |-> 20,  sBorda |-> 150]

AmostraPrateada ==
    [hCentro |-> 100, sCentro |-> 30,  hBorda |-> 100, sBorda |-> 30]

AmostraBimetalica ==
    [hCentro |-> 20,  sCentro |-> 40,  hBorda |-> 25,  sBorda |-> 160]

Amostras == {AmostraDourada, AmostraPrateada, AmostraBimetalica}

\* Centres and radii found in the image.
Candidatos ==
    { <<100, 100, 50>>, <<160, 100, 46>>, <<300, 300, 47>>, <<300, 100, 40>> }

Circulo(k, a) == [x |-> k[1], y |-> k[2], raio |-> k[3], hsv |-> a]

\* The circles an image may show: golden coins of every size, silver
\* coins of the three larger sizes, bimetallic coins of two sizes.
Circulos ==
    { Circulo(k, AmostraDourada) : k \in Candidatos }
    \cup { Circulo(k, AmostraPrateada) :
              k \in { c \in Candidatos : c[3] >= 46 } }
    \cup { Circulo(k, AmostraBimetalica) :
              k \in { c \in Candidatos : c[3] \in {40, 50} } }

SeqAte(S, n) == UNION { [1..k -> S] : k \in 0..n }

Entradas == SeqAte(Circulos, MaxCirculos)

Raios == { k[3] : k \in Candidatos }

\* Arguments of a direct call of the classifier: any reference.
Referencias ==
    [maiorRaioDourada : {0} \cup Raios, maiorRaioPrateada : {0} \cup Raios,
     maiorRaioBimetalica : {0, 50},
     countDourada : 0..MaxCirculos, countPrateada : 0..MaxCirculos,
     countBimetalica : {0, 1}]

\* Arguments of a direct call of detectarSobreposicoes: small coins.
MoedasPequenas ==
    { [centro |-> c, raio |-> r, valor |-> obterValorMoeda("UM_REAL"),
       denominacao |-> obterNomeDenominacao("UM_REAL")] :
        c \in { <<0, 0>>, <<10, 0>>, <<9, 0>>, <<6, 8>>, <<0, 16>> },
        r \in { 5, 8, 9 } }

\* The image main draws when imread fails: six filled circles of BGR
\* (180,150,100) and (200,180,100), that is hue 101 or 96 and saturation
\* 113 or 127 on the scale of cvtColor.
AmostraDeDemonstracaoA ==
    [hCentro |-> 101, sCentro |-> 113, hBorda |-> 101, sBorda |-> 113]

AmostraDeDemonstracaoB ==
    [hCentro |-> 96, sCentro |-> 127, hBorda |-> 96, sBorda |-> 127]

CirculosDeDemonstracao ==
    { Circulo(<<150, 150, 50>>, AmostraDeDemonstracaoA),
      Circulo(<<350, 200, 45>>, AmostraDeDemonstracaoA),
      Circulo(<<550, 150, 40>>, AmostraDeDemonstracaoB),
      Circulo(<<200, 400, 35>>, AmostraDeDemonstracaoB),
      Circulo(<<400, 400, 30>>, AmostraDeDemonstracaoA),
      Circulo(<<600, 400, 50>>, AmostraDeDemonstracaoA) }

\* What the circle detector may return on the demonstration image.
EntradasDeDemonstracao == SeqAte(CirculosDeDemonstracao, MaxCirculos)

\* A ResultadoDeteccao nothing has been stored in.
Nenhum == [moedas |-> << >>, valorTotal |-> DZero, quantidadeTotal |-> -1]

Init ==
    /\ pc = "carregar"
    /\ rodada = 1
    /\ circulos = << >>
    /\ it = 0
    /\ ref = [maiorRaioDourada |-> 0, maiorRaioPrateada |-> 0,
              maiorRaioBimetalica |-> 0,
              countDourada |-> 0, countPrateada |-> 0, countBimetalica |-> 0]
    /\ moedas = << >>
    /\ detalhes = << >>
    /\ resultado = Nenhum
    /\ sobreposicoes = << >>
    /\ anterior = Nenhum
    /\ contagem = SemContagem
    /\ modeloCarregado = FALSE
    /\ imagem = "nenhuma"

(***************************************************************************)
(* Actions.                                                                *)
(***************************************************************************)
\* main up to the call of detectarEContarMoedas: imread gives the image or
\* an empty Mat; on an empty Mat main prints "Erro: ...", draws the
\* demonstration image in its place and goes on.
CarregarImagem ==
    /\ pc = "carregar"
    /\ \E lida \in BOOLEAN :
          imagem' = IF lida THEN "lida" ELSE "demonstracao"
    /\ pc' = "inicio"
    /\ UNCHANGED <<rodada, circulos, it, ref, moedas, detalhes, resultado,
                   sobreposicoes, anterior, contagem, modeloCarregado>>

\* detectarEContarMoedas up to the call of processarMoedas: the circle
\* detector returns the circles of the image.
DetectarCirculos ==
    /\ pc = "inicio"
    /\ \E cs \in (IF imagem = "demonstracao" THEN EntradasDeDemonstracao
                  ELSE Entradas) : circulos' = cs
    /\ pc' = "processar"
    /\ UNCHANGED <<rodada, it, ref, moedas, detalhes, resultado,
                   sobreposicoes, anterior>>
    /\ UNCHANGED <<contagem, modeloCarregado, imagem>>

\* processarMoedas, entry: an empty circle list returns at once, otherwise
\* calcularReferenciasPorCor starts from a fresh reference.
ProcessarMoedas ==
    /\ pc = "processar"
    /\ moedas' = << >>
    /\ detalhes' = << >>
    /\ IF circulos = << >>
       THEN /\ pc' = "totalizar"
            /\ UNCHANGED <<it, ref>>
       ELSE /\ pc' = "calibrar"
            /\ it' = 1
            /\ ref' = RefInicial
    /\ UNCHANGED <<rodada, circulos, resultado, sobreposicoes, anterior>>
    /\ UNCHANGED <<contagem, modeloCarregado, imagem>>

\* Mutant: the calibration left after its first circle.
CalibrarPassoParcial ==
    /\ pc = "calibrar"
    /\ ref' = RefPasso(ref, circulos[it])
    /\ pc' = "classificar" /\ it' = 1
    /\ UNCHANGED <<rodada, circulos, moedas, detalhes, resultado,
                   sobreposicoes, anterior>>
    /\ UNCHANGED <<contagem, modeloCarregado, imagem>>

\* calcularReferenciasPorCor: one iteration of its loop.
CalibrarPasso ==
    /\ pc = "calibrar"
    /\ ref' = RefPasso(ref, circulos[it])
    /\ IF it = Len(circulos)
       THEN pc' = "classificar" /\ it' = 1
       ELSE pc' = pc /\ it' = it + 1
    /\ UNCHANGED <<rodada, circulos, moedas, detalhes, resultado,
                   sobreposicoes, anterior>>
    /\ UNCHANGED <<contagem, modeloCarregado, imagem>>

\* Mutant: each coin put at the front of the vector.
ClassificarPassoNaFrente ==
    /\ pc = "classificar"
    /\ LET c   == circulos[it]
           cor == analisarCorMoeda(c.hsv)
       IN  /\ moedas' = <<MoedaDe(c, ref)>> \o moedas
           /\ detalhes' = Append(detalhes,
                  [cor |-> cor, raio |-> c.raio,
                   det |-> ClassificarDetalhe(c.raio, cor, ref)])
    /\ IF it = Len(circulos)
       THEN pc' = "totalizar" /\ it' = 0
       ELSE pc' = pc /\ it' = it + 1
    /\ UNCHANGED <<rodada, circulos, ref, resultado, sobreposicoes, anterior>>
    /\ UNCHANGED <<contagem, modeloCarregado, imagem>>

\* processarMoedas: one iteration of the classification loop.
ClassificarPasso ==
    /\ pc = "classificar"
    /\ LET c   == circulos[it]
           cor == analisarCorMoeda(c.hsv)
       IN  /\ moedas' = Append(moedas, MoedaDe(c, ref))
           /\ detalhes' = Append(detalhes,
                  [cor |-> cor, raio |-> c.raio,
                   det |-> ClassificarDetalhe(c.raio, cor, ref)])
    /\ IF it = Len(circulos)
       THEN pc' = "totalizar" /\ it' = 0
       ELSE pc' = pc /\ it' = it + 1
    /\ UNCHANGED <<rodada, circulos, ref, resultado, sobreposicoes, anterior>>
    /\ UNCHANGED <<contagem, modeloCarregado, imagem>>

\* detectarEContarMoedas: resultado.moedas, valorTotal, quantidadeTotal.
Totalizar ==
    /\ pc = "totalizar"
    /\ resultado' = [moedas |-> moedas,
                     valorTotal |-> calcularValorTotal(moedas),
                     quantidadeTotal |-> Len(moedas)]
    /\ pc' = "feito"
    /\ UNCHANGED <<rodada, circulos, it, ref, moedas, detalhes,
                   sobreposicoes, anterior>>
    /\ UNCHANGED <<contagem, modeloCarregado, imagem>>

\* main: exibirResumo(resultado.moedas), which counts by denomination.
ExibirResumo ==
    /\ pc = "feito"
    /\ contagem' = contarPorDenominacao(resultado.moedas)
    /\ pc' = "resumido"
    /\ UNCHANGED <<rodada, circulos, it, ref, moedas, detalhes, resultado,
                   sobreposicoes, anterior, modeloCarregado,
                   imagem>>

\* main: detectarSobreposicoes(resultado.moedas).
VerificarSobreposicoes ==
    /\ pc = "resumido"
    /\ sobreposicoes' = detectarSobreposicoes(resultado.moedas)
    /\ pc' = "fim"
    /\ UNCHANGED <<rodada, circulos, it, ref, moedas, detalhes, resultado,
                   anterior>>
    /\ UNCHANGED <<contagem, modeloCarregado, imagem>>

\* The program is run again on the same image with the same parameters:
\* the detector returns the same circles.
Reexecutar ==
    /\ pc = "fim"
    /\ rodada = 1
    /\ rodada' = 2
    /\ anterior' = resultado
    /\ resultado' = Nenhum
    /\ sobreposicoes' = << >>
    /\ pc' = "processar"
    /\ UNCHANGED <<circulos, it, ref, moedas, detalhes>>
    /\ contagem' = SemContagem
    /\ UNCHANGED <<modeloCarregado, imagem>>

\* The program is run on another image: a new process, nothing is kept.
NovaExecucao ==
    /\ pc = "fim"
    /\ rodada' = 1
    /\ anterior' = Nenhum
    /\ resultado' = Nenhum
    /\ sobreposicoes' = << >>
    /\ circulos' = << >>
    /\ it' = 0
    /\ ref' = [maiorRaioDourada |-> 0, maiorRaioPrateada |-> 0,
               maiorRaioBimetalica |-> 0,
               countDourada |-> 0, countPrateada |-> 0, countBimetalica |-> 0]
    /\ moedas' = << >>
    /\ detalhes' = << >>
    /\ contagem' = SemContagem
    /\ modeloCarregado' = FALSE
    /\ imagem' = "nenhuma"
    /\ pc' = "carregar"

Next ==
    \/ CarregarImagem
    \/ DetectarCirculos
    \/ ProcessarMoedas
    \/ CalibrarPasso
    \/ ClassificarPasso
    \/ Totalizar
    \/ ExibirResumo
    \/ VerificarSobreposicoes
    \/ Reexecutar
    \/ NovaExecucao

Spec == Init /\ [][Next]_vars

(***************************************************************************)
(* Direct calls of classificarMoedaPorCorETamanho with any reference.      *)
(***************************************************************************)
InitClassificador ==
    /\ pc = "classificar"
    /\ rodada = 1
    /\ \E c \in Circulos : circulos = <<c>>
    /\ it = 1
    /\ ref \in Referencias
    /\ moedas = << >>
    /\ detalhes = << >>
    /\ resultado = Nenhum
    /\ sobreposicoes = << >>
    /\ anterior = Nenhum
    /\ contagem = SemContagem
    /\ modeloCarregado = FALSE
    /\ imagem = "lida"

NextClassificador == ClassificarPasso

SpecClassificador == InitClassificador /\ [][NextClassificador]_vars

(***************************************************************************)
(* A series of images: detectarEContarMoedas is called again in the same   *)
(* process.  Nothing is cleared between the calls but what the code        *)
(* declares anew, so whatever a call left behind is there for the next.    *)
(***************************************************************************)
\* Circles of the images of a series: two golden ones and a silver one.
CirculosDaSerie ==
    { [x |-> 100, y |-> 100, raio |-> 50,
       hsv |-> [hCentro |-> 20, sCentro |-> 150, hBorda |-> 20,
                sBorda |-> 150]],
      [x |-> 160, y |-> 100, raio |-> 46,
       hsv |-> [hCentro |-> 20, sCentro |-> 150, hBorda |-> 20,
                sBorda |-> 150]],
      [x |-> 100, y |-> 300, raio |-> 48,
       hsv |-> [hCentro |-> 100, sCentro |-> 30, hBorda |-> 100,
                sBorda |-> 30]] }

EntradasDaSerie == SeqAte(CirculosDaSerie, MaxCirculos)

\* detectarEContarMoedas up to the call of processarMoedas, on an image of
\* the series.
DetectarCirculosDaSerie ==
    /\ pc = "inicio"
    /\ \E cs \in EntradasDaSerie : circulos' = cs
    /\ pc' = "processar"
    /\ UNCHANGED <<rodada, it, ref, moedas, detalhes, resultado,
                   sobreposicoes, anterior, contagem, modeloCarregado,
                   imagem>>

\* The caller keeps the result and calls the pipeline on the next image.
ProximaImagem ==
    /\ pc = "fim"
    /\ anterior' = resultado
    /\ resultado' = Nenhum
    /\ sobreposicoes' = << >>
    /\ contagem' = SemContagem
    /\ pc' = "inicio"
    /\ UNCHANGED <<rodada, circulos, it, ref, moedas, detalhes,
                   modeloCarregado, imagem>>

NextSerie ==
    \/ DetectarCirculosDaSerie
    \/ ProcessarMoedas
    \/ CalibrarPasso
    \/ ClassificarPasso
    \/ Totalizar
    \/ ExibirResumo
    \/ VerificarSobreposicoes
    \/ ProximaImagem

\* The caller has read the first image of the series.
InitSerie ==
    /\ pc = "inicio"
    /\ rodada = 1
    /\ circulos = << >>
    /\ it = 0
    /\ ref = [maiorRaioDourada |-> 0, maiorRaioPrateada |-> 0,
              maiorRaioBimetalica |-> 0,
              countDourada |-> 0, countPrateada |-> 0, countBimetalica |-> 0]
    /\ moedas = << >>
    /\ detalhes = << >>
    /\ resultado = Nenhum
    /\ sobreposicoes = << >>
    /\ anterior = Nenhum
    /\ contagem = SemContagem
    /\ modeloCarregado = FALSE
    /\ imagem = "lida"

SpecSerie == InitSerie /\ [][NextSerie]_vars

(***************************************************************************)
(* The ML program: ClassificadorMoedas and detectarEClassificarMoedas.     *)
(* Class names and map keys are strings taken whole; the only string       *)
(* search of the program, className.find(trecho), is given by the pairs    *)
(* (name, probe) of the names of the program in which the probe occurs.    *)
(***************************************************************************)
\* classNames after carregarModelo (the vector is empty before).
classNames(carregado) ==
    IF carregado THEN <<"10", "100", "25", "5", "50">> ELSE << >>

\* Mutant: the map without the key "100".
valoresMoedasSemReal ==
    [k \in {"5", "10", "25", "50"} |->
        CASE k = "5"  -> DoubleOfCents(5)
          [] k = "10" -> DoubleOfCents(10)
          [] k = "25" -> DoubleOfCents(25)
          [] OTHER    -> DoubleOfCents(50)]

\* valoresMoedas as filled by the constructor.
valoresMoedas ==
    [k \in {"5", "10", "25", "50", "100",
            "5_centavos", "10_centavos", "25_centavos", "50_centavos",
            "100_real", "005_5centavos", "010_10centavos",
            "025_25centavos", "050_50centavos", "100_1real"} |->
        CASE k \in {"5", "5_centavos", "005_5centavos"}     -> DoubleOfCents(5)
          [] k \in {"10", "10_centavos", "010_10centavos"}  -> DoubleOfCents(10)
          [] k \in {"25", "25_centavos", "025_25centavos"}  -> DoubleOfCents(25)
          [] k \in {"50", "50_centavos", "050_50centavos"}  -> DoubleOfCents(50)
          [] OTHER                                          -> DoubleOfCents(100)]

\* className.find(trecho) != string::npos
Contem(nome, trecho) ==
    <<nome, trecho>> \in
        { <<"005_5centavos", "005">>, <<"010_10centavos", "010">>,
          <<"025_25centavos", "025">>, <<"050_50centavos", "050">>,
          <<"100", "100">>, <<"100_real", "100">>, <<"100_1real", "100">> }

getValor(classId, carregado) ==
    IF classId < 0 \/ classId >= Len(classNames(carregado)) THEN DZero
    ELSE LET className == classNames(carregado)[classId + 1]
         IN  IF className \in DOMAIN valoresMoedas
             THEN valoresMoedas[className] ELSE DZero

getDenominacao(classId, carregado) ==
    IF classId < 0 \/ classId >= Len(classNames(carregado))
    THEN "Desconhecida"
    ELSE LET className == classNames(carregado)[classId + 1]
         IN  IF Contem(className, "005") \/ className = "5"
                \/ className = "5_centavos" THEN "5 centavos"
             ELSE IF Contem(className, "010") \/ className = "10"
                \/ className = "10_centavos" THEN "10 centavos"
             ELSE IF Contem(className, "025") \/ className = "25"
                \/ className = "25_centavos" THEN "25 centavos"
             ELSE IF Contem(className, "050") \/ className = "50"
                \/ className = "50_centavos" THEN "50 centavos"
             ELSE IF Contem(className, "100") \/ className = "100_real"
                THEN "1 real"
             ELSE className

\* What classificar returns for one coin: {-1, 0} when the model is not
\* loaded or the inference throws, otherwise the index of the largest
\* output of the network (which may have more outputs than the program
\* has class names) and its value, kept in percent.
Saidas(carregado) ==
    IF ~carregado THEN { [classe |-> -1, confianca |-> 0] }
    ELSE { [classe |-> -1, confianca |-> 0], [classe |-> 3, confianca |-> 45] }
         \cup { [classe |-> k, confianca |-> 95] : k \in 0..5 }

\* Circles found by detectarCirculos of the ML program.
CirculosML ==
    { [x |-> 100, y |-> 100, raio |-> 50], [x |-> 300, y |-> 100, raio |-> 40] }

EntradasML == SeqAte(CirculosML, MaxCirculos)

\* Mutant: the totals of the result left as the declaration leaves them.
ResultadoSemZerar == Nenhum

\* `ResultadoDeteccao resultado;` with valorTotal and quantidadeTotal set
\* to 0 by the two assignments that follow.
ResultadoInicialML ==
    [moedas |-> << >>, valorTotal |-> DZero, quantidadeTotal |-> 0]

InitML ==
    /\ pc = "ml_inicio"
    /\ rodada = 1
    /\ circulos = << >>
    /\ it = 0
    /\ ref = [maiorRaioDourada |-> 0, maiorRaioPrateada |-> 0,
              maiorRaioBimetalica |-> 0,
              countDourada |-> 0, countPrateada |-> 0, countBimetalica |-> 0]
    /\ moedas = << >>
    /\ detalhes = << >>
    /\ resultado = Nenhum
    /\ sobreposicoes = << >>
    /\ anterior = Nenhum
    /\ contagem = SemContagem
    /\ modeloCarregado = FALSE
    /\ imagem = "nenhuma"

\* main: imread; an image that cannot be read ends the program with 1.
CarregarImagemML ==
    /\ pc = "ml_inicio"
    /\ \E lida \in BOOLEAN :
          /\ imagem' = IF lida THEN "lida" ELSE "vazia"
          /\ pc' = IF lida THEN "ml_modelo" ELSE "ml_erro"
    /\ UNCHANGED <<rodada, circulos, it, ref, moedas, detalhes, resultado,
                   sobreposicoes, anterior, contagem, modeloCarregado>>

\* main: classificador.carregarModelo; a failure ends the program with 1.
CarregarModeloML ==
    /\ pc = "ml_modelo"
    /\ \E ok \in BOOLEAN :
          /\ modeloCarregado' = ok
          /\ pc' = IF ok THEN "ml_detectar" ELSE "ml_erro"
    /\ UNCHANGED <<rodada, circulos, it, ref, moedas, detalhes, resultado,
                   sobreposicoes, anterior, contagem, imagem>>

\* detectarEClassificarMoedas up to its loop: the totals are set to 0 and
\* an empty circle list returns the result at once.
DetectarML ==
    /\ pc = "ml_detectar"
    /\ resultado' = ResultadoInicialML
    /\ \E cs \in EntradasML :
          /\ circulos' = cs
          /\ IF cs = << >>
             THEN pc' = "ml_feito" /\ it' = it
             ELSE pc' = "ml_classificar" /\ it' = 1
    /\ UNCHANGED <<rodada, ref, moedas, detalhes, sobreposicoes, anterior,
                   contagem, modeloCarregado,
                   imagem>>

\* detectarEClassificarMoedas: one iteration of its loop; after the last
\* one quantidadeTotal is set.
ClassificarML ==
    /\ pc = "ml_classificar"
    /\ \E s \in Saidas(modeloCarregado) :
          LET c     == circulos[it]
              moeda == [centro |-> <<c.x, c.y>>, raio |-> c.raio,
                        classe |-> s.classe, confianca |-> s.confianca,
                        valor |-> getValor(s.classe, modeloCarregado),
                        denominacao |->
                            getDenominacao(s.classe, modeloCarregado)]
              ms    == Append(resultado.moedas, moeda)
          IN  resultado' =
                  [moedas |-> ms,
                   valorTotal |-> DAdd(resultado.valorTotal, moeda.valor),
                   quantidadeTotal |->
                       IF it = Len(circulos) THEN Len(ms)
                       ELSE resultado.quantidadeTotal]
    /\ IF it = Len(circulos)
       THEN pc' = "ml_feito" /\ it' = 0
       ELSE pc' = pc /\ it' = it + 1
    /\ UNCHANGED <<rodada, circulos, ref, moedas, detalhes, sobreposicoes,
                   anterior, contagem, modeloCarregado,
                   imagem>>

\* main: exibirResumo(resultado), which counts by denomination.
ExibirResumoML ==
    /\ pc = "ml_feito"
    /\ contagem' = ContarAte(resultado.moedas, Len(resultado.moedas))
    /\ pc' = "ml_fim"
    /\ UNCHANGED <<rodada, circulos, it, ref, moedas, detalhes, resultado,
                   sobreposicoes, anterior, modeloCarregado,
                   imagem>>

NextML ==
    \/ CarregarImagemML
    \/ CarregarModeloML
    \/ DetectarML
    \/ ClassificarML
    \/ ExibirResumoML

SpecML == InitML /\ [][NextML]_vars

(***************************************************************************)
(* Either program.                                                         *)
(***************************************************************************)
InitProgramas == Init \/ InitML

NextProgramas ==
    \/ Next
    \/ NextML

SpecProgramas == InitProgramas /\ [][NextProgramas]_vars

(***************************************************************************)
(* The colour decision on any statistics: one circle whose mean hue and    *)
(* saturation lie on and around every limit the decision compares with,    *)
(* taken through the calibration pass and the classification pass.         *)
(***************************************************************************)
Estatisticas ==
    [hCentro : {7, 8, 35, 36, 45, 46}, sCentro : {79, 80, 100, 101, 160},
     hBorda : {9, 10, 40, 41}, sBorda : {100, 101, 130, 131, 151, 152}]

InitCor ==
    /\ pc = "calibrar"
    /\ rodada = 1
    /\ \E a \in Estatisticas :
          circulos = << [x |-> 100, y |-> 100, raio |-> 50, hsv |-> a] >>
    /\ it = 1
    /\ ref = [maiorRaioDourada |-> 0, maiorRaioPrateada |-> 0,
              maiorRaioBimetalica |-> 0,
              countDourada |-> 0, countPrateada |-> 0, countBimetalica |-> 0]
    /\ moedas = << >>
    /\ detalhes = << >>
    /\ resultado = Nenhum
    /\ sobreposicoes = << >>
    /\ anterior = Nenhum
    /\ contagem = SemContagem
    /\ modeloCarregado = FALSE
    /\ imagem = "lida"

NextCor ==
    \/ CalibrarPasso
    \/ ClassificarPasso

SpecCor == InitCor /\ [][NextCor]_vars

(***************************************************************************)
(* Direct calls of detectarSobreposicoes with any coin list.               *)
(***************************************************************************)
InitSobreposicoes ==
    /\ pc = "resumido"
    /\ rodada = 1
    /\ circulos = << >>
    /\ it = 0
    /\ ref = [maiorRaioDourada |-> 0, maiorRaioPrateada |-> 0,
              maiorRaioBimetalica |-> 0,
              countDourada |-> 0, countPrateada |-> 0, countBimetalica |-> 0]
    /\ moedas = << >>
    /\ detalhes = << >>
    /\ \E ms \in SeqAte(MoedasPequenas, MaxCirculos) :
          resultado = [moedas |-> ms,
                       valorTotal |-> calcularValorTotal(ms),
                       quantidadeTotal |-> Len(ms)]
    /\ sobreposicoes = << >>
    /\ anterior = Nenhum
    /\ contagem = SemContagem
    /\ modeloCarregado = FALSE
    /\ imagem = "lida"

NextSobreposicoes == VerificarSobreposicoes

SpecSobreposicoes == InitSobreposicoes /\ [][NextSobreposicoes]_vars

(***************************************************************************)
(* Properties.                                                             *)
(***************************************************************************)
Concluido == pc \in {"feito", "resumido", "fim"}

\* The amount in centavos a coin value stands for.
CentavosDe(v) == CHOOSE c \in {0, 5, 10, 25, 50, 100} : DoubleOfCents(c) = v

RECURSIVE SomaCentavos(_, _)
SomaCentavos(ms, n) ==
    IF n = 0 THEN 0 ELSE SomaCentavos(ms, n - 1) + CentavosDe(ms[n].valor)

\* C1: the total value of a result is exactly the decimal sum of the values
\* of its coins: the amount counted in centavos, with no accumulation error.
C1_ValorTotalExato ==
    Concluido =>
        resultado.valorTotal =
            DoubleOfCents(SomaCentavos(resultado.moedas,
                                       Len(resultado.moedas)))

\* Squared distance between the centres of two coins, and the exact test
\* "distance < 0.9 * (sum of the radii)" on integers.
Dist2(a, b) ==
    (a.centro[1] - b.centro[1]) * (a.centro[1] - b.centro[1])
    + (a.centro[2] - b.centro[2]) * (a.centro[2] - b.centro[2])

PertoDemais(a, b) ==
    100 * Dist2(a, b) < 81 * (a.raio + b.raio) * (a.raio + b.raio)

Relatados == { sobreposicoes[k] : k \in 1..Len(sobreposicoes) }

\* C2: a pair (i, j) of coins is reported if and only if the distance
\* between the two centres is strictly less than 0.9 times the sum of the
\* two radii, for every unordered pair of coins of the list.
C2_SobreposicaoExata ==
    pc = "fim" =>
        LET ms == resultado.moedas
        IN  \A a \in 0..(Len(ms) - 1) : \A b \in (a + 1)..(Len(ms) - 1) :
                (<<a, b>> \in Relatados) <=> PertoDemais(ms[a + 1], ms[b + 1])

\* C2 witness: centres 10 apart, radii 8 and 9, reported.
C2_Witness ==
    /\ pc = "fim"
    /\ Len(resultado.moedas) = 2
    /\ resultado.moedas[1].centro = <<0, 0>>
    /\ resultado.moedas[1].raio = 8
    /\ resultado.moedas[2].centro = <<10, 0>>
    /\ resultado.moedas[2].raio = 9
    /\ sobreposicoes = << <<0, 1>> >>

Inverso(ms) == [k \in 1..Len(ms) |-> ms[Len(ms) + 1 - k]]

\* C3: every reported pair (i, j) has i < j, no pair is reported twice, and
\* two coins are reported in a list exactly when they are reported in the
\* list taken in the opposite order.
C3_SimetricaIrreflexiva ==
    pc = "fim" =>
        LET ms  == resultado.moedas
            n   == Len(ms)
            inv == detectarSobreposicoes(Inverso(ms))
        IN  /\ \A k \in 1..Len(sobreposicoes) :
                  /\ 0 <= sobreposicoes[k][1]
                  /\ sobreposicoes[k][1] < sobreposicoes[k][2]
                  /\ sobreposicoes[k][2] < n
            /\ \A k, l \in 1..Len(sobreposicoes) :
                  k # l => sobreposicoes[k] # sobreposicoes[l]
            /\ \A a \in 0..(n - 1) : \A b \in (a + 1)..(n - 1) :
                  (<<a, b>> \in Relatados)
                  <=> (<<n - 1 - b, n - 1 - a>>
                         \in { inv[k] : k \in 1..Len(inv) })

\* C3 witness: two overlapping coins of different radii next to a third
\* coin that overlaps neither.
C3_Witness ==
    /\ pc = "fim"
    /\ Len(resultado.moedas) = 3
    /\ resultado.moedas[1].raio # resultado.moedas[2].raio
    /\ sobreposicoes = << <<0, 1>> >>

\* Colour of circle k of the image, number of circles of a colour and
\* largest radius among them (0 when there is none).
CorDe(k) == analisarCorMoeda(circulos[k].hsv)

DaCor(cor) == { k \in 1..Len(circulos) : CorDe(k) = cor }

NumCor(cor) == Cardinality(DaCor(cor))

MaxRaioCor(cor) ==
    IF DaCor(cor) = {} THEN 0
    ELSE CHOOSE r \in { circulos[k].raio : k \in DaCor(cor) } :
            \A k \in DaCor(cor) : circulos[k].raio <= r

\* Coin k of the result carries the given denomination and value.
MoedaVale(k, nome, centavos) ==
    /\ resultado.moedas[k].denominacao = nome
    /\ resultado.moedas[k].valor = DoubleOfCents(centavos)

\* C4: with a reference that has no member of the coin's own colour family
\* (count 0, largest radius 0) the classifier never divides by zero: it
\* returns the default denomination of the family without converting.
C4_SemDivisaoPorZero ==
    (pc = "totalizar" /\ Len(detalhes) = 1) =>
        LET d == detalhes[1]
        IN  /\ (d.cor = "DOURADA" /\ ref.countDourada = 0
                  /\ ref.maiorRaioDourada = 0)
               => (~d.det.divZero /\ ~d.det.converteu
                   /\ d.det.tipo = "CINCO_CENTAVOS")
            /\ (d.cor = "PRATEADA" /\ ref.countPrateada = 0
                  /\ ref.maiorRaioPrateada = 0)
               => (~d.det.divZero /\ ~d.det.converteu
                   /\ d.det.tipo = "VINTE_CINCO_CENTAVOS")

\* The family whose largest radius a conversion is anchored on, and the
\* known radius of the physically largest denomination of a family.
FamiliaAncora(ramo) ==
    IF ramo \in {"douradas", "prateada_unica"} THEN "DOURADA" ELSE "PRATEADA"

MaiorRaioFisico(familia) ==
    IF familia = "DOURADA"
    THEN (IF F32Less(RAIO_5_CENTAVOS_MM, RAIO_10_CENTAVOS_MM)
          THEN RAIO_10_CENTAVOS_MM ELSE RAIO_5_CENTAVOS_MM)
    ELSE (IF F32Less(RAIO_25_CENTAVOS_MM, RAIO_50_CENTAVOS_MM)
          THEN RAIO_50_CENTAVOS_MM ELSE RAIO_25_CENTAVOS_MM)

\* C5: whenever a radius is converted to millimetres, the anchor is the
\* largest radius of a colour family and it is assigned the known radius
\* of the physically largest denomination of that family (11.0 mm golden,
\* 12.5 mm silver), in all four conversion branches.
C5_AncoraMaiorDenominacao ==
    \A k \in 1..Len(detalhes) :
        detalhes[k].det.converteu =>
            /\ detalhes[k].det.ancoraPx
                  = MaxRaioCor(FamiliaAncora(detalhes[k].det.ramo))
            /\ detalhes[k].det.ancoraMM
                  = MaiorRaioFisico(FamiliaAncora(detalhes[k].det.ramo))

Convertidas == { k \in 1..Len(detalhes) : detalhes[k].det.converteu }

\* C6 (as stated): within one run every coin whose radius is converted to
\* millimetres is converted with the same mm-per-pixel factor.
C6_FatorUnico ==
    Concluido =>
        \A a, b \in Convertidas :
            detalhes[a].det.mmPorPixel = detalhes[b].det.mmPorPixel

\* C6 (amended): within one run any two coins of the same colour family
\* whose radii are converted to millimetres are converted with the same
\* anchor and the same mm-per-pixel factor.
C6_FatorPorFamilia ==
    \A a, b \in Convertidas :
        detalhes[a].cor = detalhes[b].cor =>
            /\ detalhes[a].det.mmPorPixel = detalhes[b].det.mmPorPixel
            /\ detalhes[a].det.ancoraPx = detalhes[b].det.ancoraPx
            /\ detalhes[a].det.ancoraMM = detalhes[b].det.ancoraMM

\* C6 witness: two converted coins of one family with different radii and
\* a converted coin of the other family with another factor.
C6_Witness ==
    /\ Concluido
    /\ \E a, b, c \in Convertidas :
          /\ detalhes[a].cor = detalhes[b].cor
          /\ detalhes[a].raio # detalhes[b].raio
          /\ detalhes[c].cor # detalhes[a].cor
          /\ detalhes[c].det.mmPorPixel # detalhes[a].det.mmPorPixel

\* C7: a second run on the same circles with the same colour statistics
\* gives the same result as the first: the same coins in the same order,
\* the same denominations and values, the same total value and count.
C7_Determinismo ==
    (rodada = 2 /\ Concluido) => resultado = anterior

\* C7 witness: a repeated run over three circles, sizes converted.
C7_Witness ==
    /\ rodada = 2
    /\ pc = "feito"
    /\ Len(resultado.moedas) = 3
    /\ Convertidas # {}
    /\ resultado = anterior

\* C8: a coin alone in its colour family, the other of the two families
\* golden/silver being absent, gets the default of its family whatever its
\* radius and whatever bimetallic coins are present: golden "5 centavos"
\* worth 0.05, silver "25 centavos" worth 0.25.
C8_PadraoSemReferencia ==
    Concluido =>
        \A k \in 1..Len(circulos) :
            /\ (CorDe(k) = "DOURADA" /\ NumCor("DOURADA") = 1
                  /\ NumCor("PRATEADA") = 0)
               => MoedaVale(k, "5 centavos", 5)
            /\ (CorDe(k) = "PRATEADA" /\ NumCor("PRATEADA") = 1
                  /\ NumCor("DOURADA") = 0)
               => MoedaVale(k, "25 centavos", 25)

\* C8 witness: the only golden coin, of radius 40, with a larger
\* bimetallic coin and no silver coin, is 5 centavos.
C8_Witness ==
    /\ Concluido
    /\ NumCor("PRATEADA") = 0
    /\ \E k \in DaCor("DOURADA") :
          /\ DaCor("DOURADA") = {k}
          /\ circulos[k].raio = 40
          /\ MaxRaioCor("BIMETALICA") = 50
          /\ MoedaVale(k, "5 centavos", 5)

C10_LimiarDourada ==
    Concluido =>
        \A k \in DaCor("DOURADA") :
            LET r == circulos[k].raio
                M == MaxRaioCor("DOURADA")
            IN  NumCor("DOURADA") > 1 =>
                  /\ IF 110 * r < 103 * M
                     THEN MoedaVale(k, "10 centavos", 10)
                     ELSE MoedaVale(k, "5 centavos", 5)
                  /\ (103 * M <= 110 * r /\ 110 * r < 105 * M)
                     => MoedaVale(k, "5 centavos", 5)

\* C10 witness: a golden coin inferred between 10.3 mm and 10.5 mm
\* (47 px against a largest golden radius of 50 px) is 5 centavos.
C10_Witness ==
    /\ Concluido
    /\ NumCor("DOURADA") > 1
    /\ \E k \in DaCor("DOURADA") :
          /\ 103 * MaxRaioCor("DOURADA") <= 110 * circulos[k].raio
          /\ 110 * circulos[k].raio < 105 * MaxRaioCor("DOURADA")
          /\ circulos[k].raio < MaxRaioCor("DOURADA")
          /\ MoedaVale(k, "5 centavos", 5)

C12_BimetalicaUmReal ==
    (pc = "totalizar" /\ Len(detalhes) = 1
       /\ detalhes[1].cor = "BIMETALICA") =>
        /\ detalhes[1].det.tipo = "UM_REAL"
        /\ ~detalhes[1].det.converteu
        /\ moedas[1].denominacao = "1 real"
        /\ moedas[1].valor = DoubleOfCents(100)

\* C12 witness: a bimetallic coin classified against the empty reference.
C12_Witness ==
    /\ pc = "totalizar"
    /\ Len(detalhes) = 1
    /\ detalhes[1].cor = "BIMETALICA"
    /\ ref = RefInicial
    /\ moedas[1].denominacao = "1 real"
    /\ moedas[1].valor = DoubleOfCents(100)

\* The rules of the colour decision, each on its own.
RegraBimetalica(a) ==
    /\ a.hBorda >= 10 /\ a.hBorda <= 40
    /\ a.sBorda > 100
    /\ (a.sCentro < a.sBorda - 50 \/ a.hCentro > 35)

RegraDourada(a) == a.hCentro >= 8 /\ a.hCentro <= 45 /\ a.sCentro > 100

RegraPrateada(a) == a.sCentro < 80 \/ a.hCentro < 8 \/ a.hCentro > 45

PrimeiraRegra(a) ==
    IF RegraBimetalica(a) THEN "BIMETALICA"
    ELSE IF RegraDourada(a) THEN "DOURADA"
    ELSE IF RegraPrateada(a) THEN "PRATEADA"
    ELSE "DOURADA"

\* The family the calibration pass counted the single circle in.
CorContada ==
    { c \in CorMoeda :
        \/ (c = "DOURADA" /\ ref.countDourada = 1)
        \/ (c = "PRATEADA" /\ ref.countPrateada = 1)
        \/ (c = "BIMETALICA" /\ ref.countBimetalica = 1) }

\* C13: analisarCorMoeda returns the family of the first matching rule in
\* the order bimetallic, golden, silver, golden by default, for every
\* combination of centre and rim hue and saturation; bimetallic wins over
\* golden when both match, and exactly one family is returned, the same in
\* the calibration pass and in the classification pass.
C13_PrimeiraRegra ==
    (pc # "calibrar" /\ Len(circulos) = 1) =>
        LET a == circulos[1].hsv
        IN  /\ CorContada = {PrimeiraRegra(a)}
            /\ ref.countDourada + ref.countPrateada + ref.countBimetalica = 1
            /\ (RegraBimetalica(a) /\ RegraDourada(a))
                   => CorContada = {"BIMETALICA"}
            /\ detalhes # << >> => detalhes[1].cor = PrimeiraRegra(a)

\* C13 witness: a circle matching both the bimetallic rule (golden rim,
\* centre hue above 35) and the golden rule is counted as bimetallic.
C13_Witness ==
    /\ pc = "totalizar"
    /\ Len(circulos) = 1
    /\ RegraBimetalica(circulos[1].hsv)
    /\ RegraDourada(circulos[1].hsv)
    /\ circulos[1].hsv.hCentro = 36
    /\ ref.countBimetalica = 1
    /\ detalhes[1].cor = "BIMETALICA"

\* C14: when calcularReferenciasPorCor has run over the circle list, for
\* each colour family the count is the number of circles of the family and
\* the largest radius is the largest radius among them, 0 for a family
\* without member; the three counts sum to the number of circles.
C14_ReferenciaExata ==
    pc = "classificar" =>
        /\ ref.countDourada = NumCor("DOURADA")
        /\ ref.countPrateada = NumCor("PRATEADA")
        /\ ref.countBimetalica = NumCor("BIMETALICA")
        /\ ref.maiorRaioDourada = MaxRaioCor("DOURADA")
        /\ ref.maiorRaioPrateada = MaxRaioCor("PRATEADA")
        /\ ref.maiorRaioBimetalica = MaxRaioCor("BIMETALICA")
        /\ ref.countDourada + ref.countPrateada + ref.countBimetalica
              = Len(circulos)

\* C14 witness: golden circles of 50 px then 46 px and a silver circle, no
\* bimetallic one: golden count 2 with largest radius 50, bimetallic 0 / 0.
C14_Witness ==
    /\ pc = "classificar"
    /\ Len(circulos) = 3
    /\ CorDe(1) = "DOURADA" /\ circulos[1].raio = 50
    /\ CorDe(2) = "DOURADA" /\ circulos[2].raio = 46
    /\ CorDe(3) = "PRATEADA"
    /\ ref.countDourada = 2 /\ ref.maiorRaioDourada = 50
    /\ ref.countPrateada = 1
    /\ ref.countBimetalica = 0 /\ ref.maiorRaioBimetalica = 0

Denominacoes ==
    {"CINCO_CENTAVOS", "DEZ_CENTAVOS", "VINTE_CINCO_CENTAVOS",
     "CINQUENTA_CENTAVOS", "UM_REAL"}

ValoresValidos == { DoubleOfCents(c) : c \in {5, 10, 25, 50, 100} }

\* C15: for every radius, colour family and reference, the empty and the
\* inconsistent ones included, the classifier returns one of the five
\* denominations and never DESCONHECIDA, so the coin built from it has a
\* value among 0.05, 0.10, 0.25, 0.50 and 1.00 and a denomination label.
C15_ClassificadorTotal ==
    (pc = "totalizar" /\ Len(detalhes) = 1) =>
        /\ detalhes[1].det.tipo \in Denominacoes
        /\ Len(moedas) = 1
        /\ moedas[1].valor \in ValoresValidos
        /\ moedas[1].denominacao
              \in {"5 centavos", "10 centavos", "25 centavos",
                   "50 centavos", "1 real"}

\* C15 witness: a silver coin alone in its family (count 1) against a
\* reference that records no golden radius but golden coins, and no silver
\* radius: an inconsistent reference, answered with 25 centavos.
C15_Witness ==
    /\ pc = "totalizar"
    /\ Len(detalhes) = 1
    /\ detalhes[1].cor = "PRATEADA"
    /\ ref.countPrateada = 1
    /\ ref.maiorRaioPrateada = 0
    /\ ref.maiorRaioDourada = 0
    /\ ref.countDourada = 2
    /\ moedas[1].denominacao = "25 centavos"

\* The pipeline has returned its result.
Retornou == pc \in {"feito", "resumido", "fim", "ml_feito", "ml_fim"}

\* C16: an empty circle list is not an error: the colour-aware pipeline and
\* the ML pipeline both return a result with no coin, quantidadeTotal 0
\* and valorTotal 0, and the program goes on to its summary.
C16_ListaVazia ==
    /\ (Retornou /\ circulos = << >>) =>
           /\ resultado.moedas = << >>
           /\ resultado.quantidadeTotal = 0
           /\ resultado.valorTotal = DZero
    /\ (pc \in {"resumido", "fim", "ml_fim"} /\ circulos = << >>) =>
           contagem = SemContagem

\* C16 witness: the ML pipeline has returned on an empty circle list.
C16_Witness ==
    /\ pc = "ml_fim"
    /\ modeloCarregado
    /\ circulos = << >>
    /\ resultado.moedas = << >>
    /\ resultado.quantidadeTotal = 0
    /\ resultado.valorTotal = DZero

\* C17: the coins of a result are the detected circles in detection order:
\* as many coins as circles, coin i with the centre and the radius of
\* circle i, and quantidadeTotal equal to that number.
C17_OrdemDeDeteccao ==
    Concluido =>
        /\ Len(resultado.moedas) = Len(circulos)
        /\ resultado.quantidadeTotal = Len(circulos)
        /\ \A k \in 1..Len(circulos) :
              /\ resultado.moedas[k].centro = <<circulos[k].x, circulos[k].y>>
              /\ resultado.moedas[k].raio = circulos[k].raio

\* C17 witness: three circles neither sorted by radius nor by position,
\* returned as three coins in the same order.
C17_Witness ==
    /\ pc = "feito"
    /\ Len(circulos) = 3
    /\ circulos[1].raio = 46 /\ circulos[2].raio = 50 /\ circulos[3].raio = 40
    /\ resultado.quantidadeTotal = 3
    /\ resultado.moedas[1].raio = 46
    /\ resultado.moedas[2].raio = 50
    /\ resultado.moedas[3].raio = 40
    /\ resultado.moedas[1].centro = <<160, 100>>

RECURSIVE SomaContagem(_, _)
\* Sum of the counts of the labels of S in the map c.
SomaContagem(c, S) ==
    IF S = {} THEN 0
    ELSE LET d == CHOOSE x \in S : TRUE
         IN  c[d] + SomaContagem(c, S \ {d})

Rotulos == { resultado.moedas[k].denominacao : k \in 1..Len(resultado.moedas) }

ComRotulo(d) ==
    { k \in 1..Len(resultado.moedas) : resultado.moedas[k].denominacao = d }

\* C18: the map returned by contarPorDenominacao has exactly the labels
\* that occur among the coins as keys, each mapped to the number of coins
\* carrying it (never 0), and its counts sum to the number of coins.
C18_ContagemExata ==
    pc \in {"resumido", "fim"} =>
        /\ DOMAIN contagem = Rotulos
        /\ \A d \in DOMAIN contagem :
              /\ contagem[d] = Cardinality(ComRotulo(d))
              /\ contagem[d] > 0
        /\ SomaContagem(contagem, DOMAIN contagem) = Len(resultado.moedas)

\* C18 witness: three coins, two of them of one denomination.
C18_Witness ==
    /\ pc = "resumido"
    /\ Len(resultado.moedas) = 3
    /\ DOMAIN contagem = {"5 centavos", "1 real"}
    /\ contagem["5 centavos"] = 2
    /\ contagem["1 real"] = 1
    /\ resultado.moedas[2].denominacao = "1 real"

RefVazia(r) ==
    /\ r.maiorRaioDourada = 0 /\ r.maiorRaioPrateada = 0
    /\ r.maiorRaioBimetalica = 0
    /\ r.countDourada = 0 /\ r.countPrateada = 0 /\ r.countBimetalica = 0

TotalContado(r) == r.countDourada + r.countPrateada + r.countBimetalica

\* C19: within one run of processarMoedas the reference starts empty, is
\* populated by one complete pass over the circles (one circle counted per
\* step, no coin built meanwhile), and is read-only afterwards: a coin is
\* only built once every circle has been counted, and no step of the
\* classification pass changes the reference.
C19_CicloDaReferencia ==
    [][ /\ (pc # "calibrar" /\ pc' = "calibrar") => RefVazia(ref')
        /\ pc = "calibrar" =>
              /\ TotalContado(ref) = it - 1
              /\ TotalContado(ref') = it
              /\ moedas = << >> /\ moedas' = << >>
              /\ pc' = "classificar" <=> it = Len(circulos)
        /\ Len(moedas') > Len(moedas) =>
              /\ pc = "classificar"
              /\ TotalContado(ref) = Len(circulos)
        /\ pc = "classificar" => ref' = ref
      ]_vars

\* C19 witness: the classification pass under way over three circles, one
\* coin built, the reference holding all three circles.
C19_Witness ==
    /\ pc = "classificar"
    /\ it = 2
    /\ Len(circulos) = 3
    /\ Len(moedas) = 1
    /\ TotalContado(ref) = 3
    /\ ref.countDourada = 2
    /\ ref.countPrateada = 1

\* The reference of the circles of the image alone, and the result they
\* give with it.
RefDaImagem ==
    [maiorRaioDourada |-> MaxRaioCor("DOURADA"),
     maiorRaioPrateada |-> MaxRaioCor("PRATEADA"),
     maiorRaioBimetalica |-> MaxRaioCor("BIMETALICA"),
     countDourada |-> NumCor("DOURADA"),
     countPrateada |-> NumCor("PRATEADA"),
     countBimetalica |-> NumCor("BIMETALICA")]

MoedasDaImagem ==
    [k \in 1..Len(circulos) |-> MoedaDe(circulos[k], RefDaImagem)]

\* C20: no calibration state survives a run: whatever images were
\* processed before, the result of a run is the result its own circles
\* give with the reference computed from them alone, which is the result
\* of the first run of a fresh program on that image.
C20_SemEstadoEntreExecucoes ==
    Concluido =>
        /\ resultado.moedas = MoedasDaImagem
        /\ resultado.valorTotal = calcularValorTotal(MoedasDaImagem)
        /\ resultado.quantidadeTotal = Len(circulos)
        /\ circulos # << >> => ref = RefDaImagem

\* C20 witness: after an image with golden circles of 50 px and 46 px (5
\* and 10 centavos), an image with the 46 px golden circle alone gives 5
\* centavos, as it does in a fresh program.
C20_Witness ==
    /\ pc = "feito"
    /\ Len(anterior.moedas) = 2
    /\ anterior.moedas[1].raio = 50
    /\ anterior.moedas[1].denominacao = "5 centavos"
    /\ anterior.moedas[2].raio = 46
    /\ anterior.moedas[2].denominacao = "10 centavos"
    /\ Len(circulos) = 1
    /\ circulos[1].raio = 46
    /\ CorDe(1) = "DOURADA"
    /\ resultado.moedas[1].denominacao = "5 centavos"

\* C21: when the input image cannot be read the run stops with an error:
\* no detection result and no summary are produced for that input and the
\* program does not reach its successful end.
C21_ImagemIlegivelFalha ==
    imagem \in {"demonstracao", "vazia"} =>
        /\ resultado = Nenhum
        /\ contagem = SemContagem
        /\ pc \notin {"fim", "ml_fim"}

(***************************************************************************)
(* The radius-only program: direct calls of classificarMoedaPorRaio.       *)
(***************************************************************************)
\* classificarMoedaPorRaio: raioNormalizado is raio itself; the parameter
\* raioReferencia is not read.
classificarMoedaPorRaio(raio, raioReferencia) ==
    LET raioNormalizado == F32FromNat(raio)
    IN  IF F32Less(raioNormalizado, F32FromNat(35)) THEN "DEZ_CENTAVOS"
        ELSE IF F32Less(raioNormalizado, F32FromNat(40))
             THEN "CINCO_CENTAVOS"
        ELSE IF F32Less(raioNormalizado, F32FromNat(45))
             THEN "CINQUENTA_CENTAVOS"
        ELSE IF F32Less(raioNormalizado, F32FromNat(50))
             THEN "VINTE_CINCO_CENTAVOS"
        ELSE "UM_REAL"

\* Radii and reference radii of the direct calls (0 is the default
\* argument: no reference).
RaiosDaChamada == 20..60

ReferenciasDeRaio == {0, 25, 50, 100}

InitRaio ==
    /\ pc = "raio_classificar"
    /\ rodada = 1
    /\ \E r \in RaiosDaChamada :
          circulos = <<[x |-> 100, y |-> 100, raio |-> r,
                        hsv |-> AmostraPrateada]>>
    /\ it = 1
    /\ ref = [maiorRaioDourada |-> 0, maiorRaioPrateada |-> 0,
              maiorRaioBimetalica |-> 0,
              countDourada |-> 0, countPrateada |-> 0, countBimetalica |-> 0]
    /\ moedas = << >>
    /\ detalhes = << >>
    /\ resultado = Nenhum
    /\ sobreposicoes = << >>
    /\ anterior = Nenhum
    /\ contagem = SemContagem
    /\ modeloCarregado = FALSE
    /\ imagem = "lida"

\* A call classificarMoedaPorRaio(raio, raioReferencia) and the Moeda built
\* from its result as processarMoedas of the radius-only program does.
ClassificarPorRaio ==
    /\ pc = "raio_classificar"
    /\ \E rr \in ReferenciasDeRaio :
          LET c    == circulos[it]
              tipo == classificarMoedaPorRaio(c.raio, rr)
          IN  /\ moedas' = Append(moedas,
                     [centro |-> <<c.x, c.y>>, raio |-> c.raio,
                      valor |-> obterValorMoeda(tipo),
                      denominacao |-> obterNomeDenominacao(tipo)])
              /\ detalhes' = Append(detalhes,
                     [raio |-> c.raio, raioReferencia |-> rr, tipo |-> tipo])
    /\ pc' = "raio_feito"
    /\ UNCHANGED <<rodada, circulos, it, ref, resultado, sobreposicoes,
                   anterior, contagem, modeloCarregado, imagem>>

NextRaio == ClassificarPorRaio

SpecRaio == InitRaio /\ [][NextRaio]_vars

\* C22: with a non-zero reference radius classificarMoedaPorRaio decides
\* from the radius normalised by the reference, not from the raw pixel
\* radius: two calls with the same ratio raio / raioReferencia give the
\* same denomination, whatever the pixel radii are.
C22_RaioNormalizado ==
    pc = "raio_feito" =>
        \A r2 \in RaiosDaChamada, rr2 \in ReferenciasDeRaio \ {0} :
            ( /\ detalhes[1].raioReferencia # 0
              /\ r2 * detalhes[1].raioReferencia = detalhes[1].raio * rr2 )
            => classificarMoedaPorRaio(r2, rr2) = detalhes[1].tipo

\* calcularReferenciasPorCor and processarMoedas of the colour program as
\* functions of the circle list.
RECURSIVE RefAte(_, _)
RefAte(cs, n) ==
    IF n = 0 THEN RefInicial ELSE RefPasso(RefAte(cs, n - 1), cs[n])

calcularReferenciasPorCor(cs) == RefAte(cs, Len(cs))

processarMoedas(cs) ==
    IF cs = << >> THEN << >>
    ELSE LET r == calcularReferenciasPorCor(cs)
         IN  [k \in 1..Len(cs) |-> MoedaDe(cs[k], r)]

\* The permutations of 1..n and a list taken in the order of one.
Permutacoes(n) ==
    { p \in [1..n -> 1..n] : \A a, b \in 1..n : a # b => p[a] # p[b] }

Permutada(cs, p) == [k \in 1..Len(cs) |-> cs[p[k]]]

\* The part of C23 about the coins and the counts.
MesmasMoedas(p) ==
    LET ms == processarMoedas(Permutada(circulos, p))
    IN  /\ ms = Permutada(resultado.moedas, p)
        /\ contarPorDenominacao(ms) = contarPorDenominacao(resultado.moedas)
        /\ Len(ms) = resultado.quantidadeTotal

\* C23: the result does not depend on the order of the circle list: the
\* circles taken in any other order give the same coins in that order, each
\* circle with the same denomination, the same counts by denomination, the
\* same number of coins and the same total value.
C23_OrdemIndiferente ==
    Concluido =>
        \A p \in Permutacoes(Len(circulos)) :
            /\ MesmasMoedas(p)
            /\ calcularValorTotal(processarMoedas(Permutada(circulos, p)))
                   = resultado.valorTotal

\* C24: when the model cannot be loaded the ML program does not give up:
\* it classifies by colour and size instead, so a run whose image was read
\* never ends in the error exit without a detection result.
C24_FallbackSemModelo ==
    (imagem = "lida" /\ ~modeloCarregado /\ pc = "ml_erro") =>
        /\ resultado # Nenhum
        /\ resultado.quantidadeTotal = Len(resultado.moedas)

\* The coins of the ML result that have a denomination.
Conhecidas ==
    SelectSeq(resultado.moedas, LAMBDA m : m.denominacao # "Desconhecida")

C26_FamiliaPropriaPresente ==
    \A k \in 1..Len(detalhes) :
        LET d == detalhes[k]
        IN  /\ d.cor = CorDe(k)
            /\ d.raio = circulos[k].raio
            /\ d.cor = "DOURADA" =>
                   /\ ref.countDourada >= 1
                   /\ ref.countDourada = NumCor("DOURADA")
                   /\ 0 < d.raio /\ d.raio <= ref.maiorRaioDourada
            /\ d.cor = "PRATEADA" =>
                   /\ ref.countPrateada >= 1
                   /\ ref.countPrateada = NumCor("PRATEADA")
                   /\ 0 < d.raio /\ d.raio <= ref.maiorRaioPrateada
            /\ ~d.det.divZero
            /\ d.det.converteu => d.det.ancoraPx > 0

\* C26 witness: a golden coin alone in its family converted on the largest
\* silver radius, and a silver coin converted on its own family.
C26_Witness ==
    /\ pc = "totalizar"
    /\ Len(detalhes) = 3
    /\ detalhes[1].cor = "DOURADA"
    /\ detalhes[1].det.ramo = "dourada_unica"
    /\ detalhes[1].det.converteu
    /\ detalhes[2].cor = "PRATEADA"
    /\ detalhes[2].det.ramo = "prateadas"
    /\ detalhes[2].det.converteu
    /\ detalhes[2].raio < ref.maiorRaioPrateada
    /\ ref.countDourada = 1
    /\ ref.countPrateada = 2

(***************************************************************************)
(* Images taken at several camera distances.  The circle list holds the    *)
(* radii of one distance; the radii of another distance are these times a  *)
(* factor.  The float results for radii scaled by a power of two are the   *)
(* same, so the integer factor 61 also stands for 61/64, 61/32, ...: the   *)
(* circles of 48 px and 50 px seen as 45.75 px and 47.65625 px.            *)
(***************************************************************************)
\* Circles of these images: silver ones of 46, 48 and 50 px, golden ones of
\* 42 and 44 px.
CirculosEmEscala ==
    { Circulo(<<100, 100, 48>>, AmostraPrateada),
      Circulo(<<300, 100, 50>>, AmostraPrateada),
      Circulo(<<100, 300, 46>>, AmostraPrateada),
      Circulo(<<300, 300, 44>>, AmostraDourada),
      Circulo(<<500, 100, 42>>, AmostraDourada) }

EntradasEmEscala == SeqAte(CirculosEmEscala, MaxCirculos)

Fatores == {2, 3, 61}

\* The circle list of the same scene with every radius times k.
Escalada(cs, k) == [n \in 1..Len(cs) |-> [cs[n] EXCEPT !.raio = k * @]]

\* detectarEContarMoedas up to the call of processarMoedas, on one of these
\* images.
DetectarCirculosEmEscala ==
    /\ pc = "inicio"
    /\ \E cs \in EntradasEmEscala : circulos' = cs
    /\ pc' = "processar"
    /\ UNCHANGED <<rodada, it, ref, moedas, detalhes, resultado,
                   sobreposicoes, anterior, contagem, modeloCarregado,
                   imagem>>

NextEscala ==
    \/ DetectarCirculosEmEscala
    \/ ProcessarMoedas
    \/ CalibrarPasso
    \/ ClassificarPasso
    \/ Totalizar

SpecEscala == InitSerie /\ [][NextEscala]_vars

\* The denominations of a coin list, in order.
DenominacoesDe(ms) == [n \in 1..Len(ms) |-> ms[n].denominacao]

\* C27: the classification does not change with the camera distance: the
\* radii of all circles times the same factor, colours unchanged, give
\* every coin the same denomination, hence the same counts and the same
\* total value.
C27_EscalaIndiferente ==
    pc = "feito" =>
        \A k \in Fatores :
            LET ms == processarMoedas(Escalada(circulos, k))
            IN  /\ DenominacoesDe(ms) = DenominacoesDe(resultado.moedas)
                /\ contarPorDenominacao(ms)
                       = contarPorDenominacao(resultado.moedas)
                /\ calcularValorTotal(ms) = resultado.valorTotal

\* C28: in an image with at least two coins of a colour family, every coin
\* with the largest radius of the family gets the physically larger
\* denomination of the family, 5 centavos for golden and 25 centavos for
\* silver, so at least one coin of the family has that denomination.
C28_MaiorDaFamilia ==
    Concluido =>
        /\ \A k \in 1..Len(circulos) :
               /\ ( /\ CorDe(k) = "DOURADA"
                    /\ NumCor("DOURADA") >= 2
                    /\ circulos[k].raio = MaxRaioCor("DOURADA") )
                  => MoedaVale(k, "5 centavos", 5)
               /\ ( /\ CorDe(k) = "PRATEADA"
                    /\ NumCor("PRATEADA") >= 2
                    /\ circulos[k].raio = MaxRaioCor("PRATEADA") )
                  => MoedaVale(k, "25 centavos", 25)
        /\ NumCor("DOURADA") >= 2 =>
               \E k \in DaCor("DOURADA") : MoedaVale(k, "5 centavos", 5)
        /\ NumCor("PRATEADA") >= 2 =>
               \E k \in DaCor("PRATEADA") : MoedaVale(k, "25 centavos", 25)

\* C28 witness: silver coins of 46 px and 50 px and a golden coin: the
\* 46 px coin is 50 centavos and the 50 px coin, the largest, 25 centavos.
C28_Witness ==
    /\ pc = "feito"
    /\ Len(circulos) = 3
    /\ CorDe(1) = "PRATEADA" /\ circulos[1].raio = 46
    /\ CorDe(2) = "PRATEADA" /\ circulos[2].raio = 50
    /\ CorDe(3) = "DOURADA"
    /\ MoedaVale(1, "50 centavos", 50)
    /\ MoedaVale(2, "25 centavos", 25)

\* C29: the anchoring across families is consistent with itself: whenever
\* the only golden coin of an image is classified with the largest silver
\* radius taken as a 50 centavos coin (11.5 mm), every silver coin of that
\* radius is itself classified as 50 centavos in the same run.
C29_AncoraCoerente ==
    Concluido =>
        \A k \in 1..Len(detalhes) :
            detalhes[k].det.ramo = "dourada_unica" =>
                \A j \in DaCor("PRATEADA") :
                    circulos[j].raio = detalhes[k].det.ancoraPx
                        => MoedaVale(j, "50 centavos", 50)

\* The reference with another bimetallic part.
ComBimetalicas(r, n, raio) ==
    [r EXCEPT !.countBimetalica = n, !.maiorRaioBimetalica = raio]

\* The circle list without its bimetallic circles, and the coins of the
\* other circles among the first n of a result.
SemBimetalicas(cs) ==
    SelectSeq(cs, LAMBDA c : analisarCorMoeda(c.hsv) # "BIMETALICA")

RECURSIVE Restantes(_, _, _)
Restantes(ms, cs, n) ==
    IF n = 0 THEN << >>
    ELSE IF analisarCorMoeda(cs[n].hsv) = "BIMETALICA"
         THEN Restantes(ms, cs, n - 1)
         ELSE Append(Restantes(ms, cs, n - 1), ms[n])

\* The circle list with every bimetallic circle given the radius raio.
BimetalicasDeRaio(cs, raio) ==
    [n \in 1..Len(cs) |->
        IF analisarCorMoeda(cs[n].hsv) = "BIMETALICA"
        THEN [cs[n] EXCEPT !.raio = raio] ELSE cs[n]]

\* C30: the bimetallic part of the reference never influences the
\* classification: with any other countBimetalica and maiorRaioBimetalica
\* every coin gets the same denomination, an image without its bimetallic
\* circles or with bimetallic circles of other radii gives the golden and
\* silver coins the same denominations, and the radius a conversion is
\* anchored on is the largest golden or silver radius, never a bimetallic
\* one.
C30_BimetalicaSemInfluencia ==
    pc = "feito" =>
        /\ \A k \in 1..Len(detalhes) :
               /\ \A n \in {0, 1, MaxCirculos + 1}, raio \in {0, 45, 60} :
                      classificarMoedaPorCorETamanho(detalhes[k].raio,
                          detalhes[k].cor, ComBimetalicas(ref, n, raio))
                      = detalhes[k].det.tipo
               /\ detalhes[k].det.converteu =>
                      /\ detalhes[k].cor # "BIMETALICA"
                      /\ detalhes[k].det.ancoraPx
                             = MaxRaioCor(FamiliaAncora(detalhes[k].det.ramo))
        /\ processarMoedas(SemBimetalicas(circulos))
               = Restantes(resultado.moedas, circulos, Len(circulos))
        /\ \A raio \in {30, 60} :
               DenominacoesDe(processarMoedas(BimetalicasDeRaio(circulos,
                                                                raio)))
                   = DenominacoesDe(resultado.moedas)

\* C30 witness: the only golden coin, 40 px, is converted on the silver
\* radius of 46 px next to a bimetallic coin of 50 px, the largest circle
\* of the image.
C30_Witness ==
    /\ pc = "feito"
    /\ Len(circulos) = 3
    /\ CorDe(1) = "BIMETALICA" /\ circulos[1].raio = 50
    /\ CorDe(2) = "DOURADA" /\ circulos[2].raio = 40
    /\ CorDe(3) = "PRATEADA" /\ circulos[3].raio = 46
    /\ ref.countBimetalica = 1 /\ ref.maiorRaioBimetalica = 50
    /\ detalhes[2].det.ramo = "dourada_unica"
    /\ detalhes[2].det.ancoraPx = 46
    /\ MoedaVale(1, "1 real", 100)

=============================================================================
